---- MODULE Spec2Model ----
(***************************************************************************)
(* Model of map2.py: a Streamlit page that sends one query to the Tmap POI *)
(* API and to the Naver local-search API with a geocoding fallback, and    *)
(* renders a table and a map per provider.                                 *)
(*                                                                         *)
(* Degrees are kept exactly, as a whole part and a fraction counted in     *)
(* units of 10^-7 degree, so that the division by 10,000,000 and the       *)
(* strict comparisons against the bounding box are computed, not assumed.  *)
(***************************************************************************)
EXTENDS Integers, Sequences, FiniteSets, TLC

\* ------------------------------------------------------------------ bounds
MaxItems == 2      \* longest item list a provider response carries
Delta == 1         \* raw coordinates are drawn this far around each box edge

\* ------------------------------------------------------- program constants
Scale == 10000000  \* map2.py:143  x_val / 10000000.0
LatMin == 33       \* map2.py:147
LatMax == 43
LonMin == 124
LonMax == 132
TmapCount == 10    \* map2.py:319  search_tmap(search_query, 10)

Credentials ==
  {"TMAP_API_KEY", "NAVER_CLIENT_ID", "NAVER_CLIENT_SECRET",
   "NCP_CLIENT_ID", "NCP_CLIENT_SECRET"}

LabelLocal == "local search"            \* map2.py:247 "지역 검색"
LabelGeocode == "address search (Geocoding)" \* map2.py:253 "주소 검색 (Geocoding)"
LabelFail == "search failed"            \* map2.py:255 "검색 실패"

\* ------------------------------------------------------------------ values
\* A Python value that reaches float(): None, a text that is no number,
\* NaN, or a number (an integer count for raw Naver coordinates).
PyNone == [tag |-> "none", n |-> 0]
PyBad == [tag |-> "bad", n |-> 0]
PyInt(n) == [tag |-> "int", n |-> n]

\* A decimal-degree value: None, NaN, or deg + frac / 10^7.
NoneD == [tag |-> "none", deg |-> 0, frac |-> 0]
NaND == [tag |-> "nan", deg |-> 0, frac |-> 0]
Num(d, f) == [tag |-> "num", deg |-> d, frac |-> f]

\* n / 10000000.0 for a raw count n
DivScale(n) == Num(n \div Scale, n % Scale)

\* Python comparisons k < d and d < k for an integer k; NaN compares false
GtInt(d, k) == d.tag = "num" /\ (d.deg > k \/ (d.deg = k /\ d.frac > 0))
LtInt(d, k) == d.tag = "num" /\ d.deg < k

\* Python truthiness of a coordinate (None and 0.0 are falsy, NaN is truthy)
TruthyD(d) ==
  CASE d.tag = "none" -> FALSE
    [] d.tag = "nan" -> TRUE
    [] OTHER -> ~(d.deg = 0 /\ d.frac = 0)

\* Python truthiness of a raw value (None and 0 are falsy)
TruthyRaw(v) ==
  CASE v.tag = "none" -> FALSE
    [] v.tag = "bad" -> TRUE
    [] OTHER -> v.n # 0

\* ---------------------------------------------------- convert_tm_to_wgs84
\* the range test with the box edges included (<= in place of <)
InRangeClosed(lat, lon) ==
  /\ (GtInt(lat, LatMin) \/ lat = Num(LatMin, 0))
  /\ (LtInt(lat, LatMax) \/ lat = Num(LatMax, 0))
  /\ (GtInt(lon, LonMin) \/ lon = Num(LonMin, 0))
  /\ (LtInt(lon, LonMax) \/ lon = Num(LonMax, 0))

\* 33 < lat < 43 and 124 < lon < 132
InRange(lat, lon) ==
  /\ GtInt(lat, LatMin) /\ LtInt(lat, LatMax)
  /\ GtInt(lon, LonMin) /\ LtInt(lon, LonMax)

ConvNone(wrote) == [lat |-> NoneD, lon |-> NoneD, wrote |-> wrote, raised |-> FALSE]

\* Returns the pair (lat, lon); wrote tells which st.write diagnostic was
\* printed; raised tells whether an exception left the function.
convert_tm_to_wgs84(x, y) ==
  IF x.tag = "none" \/ y.tag = "none" THEN ConvNone("")
  ELSE IF x.tag = "bad" \/ y.tag = "bad" THEN ConvNone("exception")
  ELSE LET lon == DivScale(x.n)
           lat == DivScale(y.n)
       IN IF ~InRange(lat, lon) THEN ConvNone("range")
          ELSE [lat |-> lat, lon |-> lon, wrote |-> "", raised |-> FALSE]

\* ------------------------------------------------------- provider clients
BadD == [tag |-> "bad", deg |-> 0, frac |-> 0]

\* float(item.get(key, 0)): an absent key reads as 0
FloatOrZero(v) == IF v.tag = "none" THEN Num(0, 0) ELSE v

\* What a client hands back: a list of place records or None
NoneRet == [isNone |-> TRUE, list |-> <<>>]
Ret(l) == [isNone |-> FALSE, list |-> l]
\* Python truthiness of a returned list (None and [] are falsy)
Truthy(r) == ~r.isNone /\ Len(r.list) > 0

Place(i, lat, lon) == [name |-> i, lat |-> lat, lon |-> lon]

\* Outcome of one client call: the value returned, the number of st.error
\* messages shown, the number of st.write diagnostics, and whether an
\* exception left the client.
Outcome(r, e, w) == [ret |-> r, errors |-> e, writes |-> w, raised |-> FALSE]
Raise == [ret |-> NoneRet, errors |-> 0, writes |-> 0, raised |-> TRUE]

Failed(resp) == resp.kind # "ok"

\* lines 171-181: the body of the try block once the response is in
TmapPlaces(resp) ==
  IF resp.totalCount = "0" THEN Outcome(Ret(<<>>), 0, 0)
  ELSE IF \E i \in 1..Len(resp.poi) :
            resp.poi[i].frontLat.tag = "bad" \/ resp.poi[i].frontLon.tag = "bad"
       THEN Outcome(NoneRet, 1, 0)
  ELSE Outcome(Ret([i \in 1..Len(resp.poi) |->
                     Place(i, FloatOrZero(resp.poi[i].frontLat),
                              FloatOrZero(resp.poi[i].frontLon))]), 0, 0)

\* search_tmap without its except clause
search_tmap_uncaught(resp) ==
  IF Failed(resp) THEN Raise ELSE TmapPlaces(resp)

\* lines 164-184
search_tmap(resp) ==
  IF Failed(resp) THEN Outcome(NoneRet, 1, 0) ELSE TmapPlaces(resp)

\* lat, lon = convert_tm_to_wgs84(mapx, mapy) if mapx and mapy else (None, None)
LocalCoords(item) ==
  IF TruthyRaw(item.mapx) /\ TruthyRaw(item.mapy)
  THEN convert_tm_to_wgs84(item.mapx, item.mapy)
  ELSE ConvNone("")

\* if lat and lon: places.append(...)
LocalKeeps(item) ==
  TruthyD(LocalCoords(item).lat) /\ TruthyD(LocalCoords(item).lon)

\* positions of the items the loop of lines 198-214 appends, in order
KeptIdx(items) ==
  LET F[i \in 0..Len(items)] ==
        IF i = 0 THEN <<>>
        ELSE IF LocalKeeps(items[i]) THEN Append(F[i - 1], i) ELSE F[i - 1]
  IN F[Len(items)]

\* number of st.write diagnostics convert_tm_to_wgs84 printed during the loop
LoopWrites(items) ==
  Cardinality({i \in 1..Len(items) : LocalCoords(items[i]).wrote # ""})

\* lines 188-218
search_naver_local(resp) ==
  IF Failed(resp) THEN Outcome(NoneRet, 1, 0)
  ELSE IF ~(resp.total > 0 /\ Len(resp.items) > 0) THEN Outcome(Ret(<<>>), 0, 0)
  ELSE LET kept == KeptIdx(resp.items)
       IN Outcome(Ret([k \in 1..Len(kept) |->
                        Place(kept[k], LocalCoords(resp.items[kept[k]]).lat,
                                       LocalCoords(resp.items[kept[k]]).lon)]),
                  0, LoopWrites(resp.items))

\* lines 222-241
search_naver_geocode(resp) ==
  IF Failed(resp) THEN Outcome(NoneRet, 0, 0)
  ELSE IF ~(resp.status = "OK" /\ Len(resp.addresses) > 0) THEN Outcome(Ret(<<>>), 0, 0)
  ELSE LET addr == resp.addresses[1]
       IN IF addr.y.tag = "bad" \/ addr.x.tag = "bad" THEN Outcome(NoneRet, 0, 0)
          ELSE Outcome(Ret(<<Place(1, FloatOrZero(addr.y), FloatOrZero(addr.x))>>), 0, 0)

\* --------------------------------------------------------- result presenter
notna(d) == d.tag # "nan" /\ d.tag # "none"

\* the boolean mask of lines 332-339 / 389-396, for one row
CleanRow(p) ==
  /\ notna(p.lat) /\ notna(p.lon)
  /\ GtInt(p.lat, LatMin) /\ LtInt(p.lat, LatMax)
  /\ GtInt(p.lon, LonMin) /\ LtInt(p.lon, LonMax)

NoPanel ==
  [state |-> "none", count |-> 0, table |-> <<>>, map |-> <<>>,
   mapShown |-> FALSE, warn |-> FALSE, success |-> ""]

EmptyPanel == [NoPanel EXCEPT !.state = "noresults"]

Names(l) == [i \in 1..Len(l) |-> l[i].name]

ResultPanel(l, clean, label) ==
  [state |-> "results", count |-> Len(l), table |-> Names(l), map |-> clean,
   mapShown |-> Len(clean) > 0, warn |-> Len(clean) = 0, success |-> label]

\* the panel plotting df_tmap instead of df_tmap_clean
TmapPanelUnfilteredMap(results) ==
  IF Truthy(results)
  THEN ResultPanel(results.list, results.list, "")
  ELSE EmptyPanel

\* lines 321-365: stat box, table of df_tmap, map of df_tmap_clean
TmapPanel(results) ==
  IF Truthy(results)
  THEN ResultPanel(results.list, SelectSeq(results.list, CleanRow), "")
  ELSE EmptyPanel

\* the panel calling st.map without the len(df_naver_clean) > 0 test
NaverPanelAlwaysMap(results, search_type_) ==
  IF Truthy(results)
  THEN [ResultPanel(results.list, SelectSeq(results.list, CleanRow), search_type_)
          EXCEPT !.mapShown = TRUE, !.warn = FALSE]
  ELSE EmptyPanel

\* lines 377-425: stat box, st.success, table of df_naver, map of df_naver_clean
NaverPanel(results, search_type_) ==
  IF Truthy(results)
  THEN ResultPanel(results.list, SelectSeq(results.list, CleanRow), search_type_)
  ELSE EmptyPanel

\* line 432
TotalCount(tmap, naver) ==
  (IF Truthy(tmap) THEN Len(tmap.list) ELSE 0)
  + (IF Truthy(naver) THEN Len(naver.list) ELSE 0)

\* ------------------------------------------------------- smart_search_naver
\* the orchestrator always falling through to geocoding
LocalNeverSuffices(results) == FALSE

\* line 246: if results: return results, "지역 검색"
LocalSuffices(results) == Truthy(results)

\* the orchestrator labelling an empty geocoding result as a success
GeocodeOutcomeNoFailure(results) ==
  <<results, LabelGeocode>>

\* lines 252-255
GeocodeOutcome(results) ==
  IF Truthy(results) THEN <<results, LabelGeocode>> ELSE <<NoneRet, LabelFail>>

\* ------------------------------------------------------------------ inputs
Queries == {"", "SK T-tower", "Pangyoyeok-ro 264"}
SortLabels == {"accuracy", "review"}   \* map2.py:293 ("정확도순 (기본)", "리뷰순")
DisplayCounts == 1..5        \* st.slider(..., 1, 5, 5), map2.py:291
FailureKinds == {"http_error", "transport", "malformed"}

SeqUpTo(S, n) == UNION {[1..k -> S] : k \in 0..n}

GoodLat == Num(37, 5678000)
GoodLon == Num(127, 594000)

TmapItems ==
  {[frontLat |-> c[1], frontLon |-> c[2]] :
     c \in {<<GoodLat, GoodLon>>, <<Num(LatMin, 0), GoodLon>>,
            <<NaND, GoodLon>>, <<NoneD, NoneD>>, <<BadD, GoodLon>>}}

TmapResponses ==
  {[kind |-> k, totalCount |-> "0", poi |-> <<>>] : k \in FailureKinds}
  \cup {[kind |-> "ok", totalCount |-> t, poi |-> l] :
          t \in {"0", "1"}, l \in SeqUpTo(TmapItems, MaxItems)}

LocalItems ==
  {[mapx |-> c[1], mapy |-> c[2]] :
     c \in {<<PyInt(1270594000), PyInt(375678000)>>,
            <<PyInt(LonMin * Scale), PyInt(375678000)>>,
            <<PyInt(1270594000), PyInt(0)>>,
            <<PyNone, PyInt(375678000)>>,
            <<PyBad, PyInt(375678000)>>}}

LocalResponses ==
  {[kind |-> k, total |-> 0, items |-> <<>>] : k \in FailureKinds}
  \cup {[kind |-> "ok", total |-> t, items |-> l] :
          t \in {0, 1}, l \in SeqUpTo(LocalItems, MaxItems)}

GeoItems ==
  {[y |-> c[1], x |-> c[2]] :
     c \in {<<GoodLat, GoodLon>>, <<Num(LatMax, 0), GoodLon>>,
            <<NoneD, NoneD>>, <<BadD, GoodLon>>}}

GeoResponses ==
  {[kind |-> k, status |-> "", addresses |-> <<>>] : k \in FailureKinds}
  \cup {[kind |-> "ok", status |-> s, addresses |-> l] :
          s \in {"OK", "INVALID_REQUEST"}, l \in SeqUpTo(GeoItems, MaxItems)}

\* raw values handed to convert_tm_to_wgs84 on its own
AroundEdge(k) == {PyInt(n) : n \in (k * Scale - Delta)..(k * Scale + Delta)}
RawInputs ==
  {PyNone, PyBad, PyInt(0), PyInt(375678000), PyInt(1270594000)}
  \cup AroundEdge(LatMin) \cup AroundEdge(LatMax)
  \cup AroundEdge(LonMin) \cup AroundEdge(LonMax)

\* ------------------------------------------------------------------- state
VARIABLES
  pc,                  \* position of the script run
  secrets,             \* keys present in st.secrets
  formRendered,        \* the search form of line 268 has been rendered
  submitted, search_query, naver_display_count, sort_param,
  calls,               \* outbound HTTP trace: requests and their returns
  inflight,            \* clients whose request has not returned yet
  respKind,            \* per client, how its HTTP exchange ended ("" = none)
  errors,              \* per client, number of st.error messages it showed
  msgs,                \* other notices, in order of appearance
  tmap_results, localRet, geoRet, naver_results, search_type,
  tmapPanel, naverPanel, total_count,
  raised,              \* an exception left the script
  cx, cy, cres         \* convert_tm_to_wgs84 applied on its own

vars ==
  <<pc, secrets, formRendered, submitted, search_query, naver_display_count,
    sort_param, calls, inflight, respKind, errors, msgs, tmap_results,
    localRet, geoRet, naver_results, search_type, tmapPanel, naverPanel,
    total_count, raised, cx, cy, cres>>

convVars == <<cx, cy, cres>>
runVars ==
  <<formRendered, submitted, search_query, naver_display_count, sort_param,
    calls, inflight, respKind, errors, msgs, tmap_results, localRet, geoRet,
    naver_results, search_type, tmapPanel, naverPanel, total_count, raised>>

Clients == {"A", "B", "C"}
Unset == [lat |-> NoneD, lon |-> NoneD, wrote |-> "unset", raised |-> FALSE]

Req(c, kw, n, s) == [client |-> c, ev |-> "req", keyword |-> kw, count |-> n, sort |-> s]
Back(c, kw) == [client |-> c, ev |-> "ret", keyword |-> kw, count |-> 0, sort |-> ""]

Repeat(tag, n) == [i \in 1..n |-> tag]

FreshRun ==
  /\ pc = "load"
  /\ formRendered = FALSE
  /\ submitted = FALSE
  /\ search_query = ""
  /\ naver_display_count = 5
  /\ sort_param = "random"
  /\ calls = <<>>
  /\ inflight = {}
  /\ respKind = [c \in Clients |-> ""]
  /\ errors = [c \in Clients |-> 0]
  /\ msgs = <<>>
  /\ tmap_results = NoneRet
  /\ localRet = NoneRet
  /\ geoRet = NoneRet
  /\ naver_results = NoneRet
  /\ search_type = ""
  /\ tmapPanel = NoPanel
  /\ naverPanel = NoPanel
  /\ total_count = 0
  /\ raised = FALSE

Init ==
  /\ FreshRun
  /\ secrets \in SUBSET Credentials
  /\ cx = PyNone /\ cy = PyNone /\ cres = Unset

\* ----------------------------------------------------------------- actions
\* only the first key being looked up
SecretsLoadFirstOnly(present) == "TMAP_API_KEY" \in present

\* lines 116-124: every st.secrets[...] lookup succeeds
SecretsLoad(present) == Credentials \subseteq present

\* lines 116-124, then the header of lines 260-261
LoadSecrets ==
  /\ pc = "load"
  /\ IF SecretsLoad(secrets)
     THEN /\ pc' = "ui"
          /\ msgs' = msgs
     ELSE /\ pc' = "stopped"
          /\ msgs' = Append(msgs, "config_error")
  /\ UNCHANGED <<secrets, formRendered, submitted, search_query,
                 naver_display_count, sort_param, calls, inflight, respKind,
                 errors, tmap_results, localRet, geoRet, naver_results,
                 search_type, tmapPanel, naverPanel, total_count, raised,
                 convVars>>

\* lines 268-312: form, options, and the branch on submitted / search_query
RenderForm ==
  /\ pc = "ui"
  /\ \E sub \in BOOLEAN, q \in Queries, n \in DisplayCounts, label \in SortLabels :
       /\ formRendered' = TRUE
       /\ submitted' = sub
       /\ search_query' = q
       /\ naver_display_count' = n
       /\ sort_param' = IF label = "accuracy" THEN "random" ELSE "comment"
       /\ IF ~sub THEN pc' = "done" /\ msgs' = msgs
          ELSE IF q = "" THEN pc' = "done" /\ msgs' = Append(msgs, "empty_query")
          ELSE pc' = "tmap" /\ msgs' = msgs
  /\ UNCHANGED <<secrets, calls, inflight, respKind, errors, tmap_results,
                 localRet, geoRet, naver_results, search_type, tmapPanel,
                 naverPanel, total_count, raised, convVars>>

\* the request being issued a second time (a retry)
SendWithRetry(c, kw, n, s) ==
  /\ calls' = calls \o <<Req(c, kw, n, s), Req(c, kw, n, s)>>
  /\ inflight' = inflight \cup {c}

\* requests.get(...) is entered
Send(c, kw, n, s) ==
  /\ calls' = Append(calls, Req(c, kw, n, s))
  /\ inflight' = inflight \cup {c}

\* requests.get(...) has returned or thrown, and the client has finished
Receive(c, kw, kind, o) ==
  /\ calls' = Append(calls, Back(c, kw))
  /\ inflight' = inflight \ {c}
  /\ respKind' = [respKind EXCEPT ![c] = kind]
  /\ errors' = [errors EXCEPT ![c] = @ + o.errors]
  /\ raised' = o.raised

\* line 319 up to requests.get of line 169
TmapRequest ==
  /\ pc = "tmap"
  /\ Send("A", search_query, TmapCount, "")
  /\ pc' = "tmap_wait"
  /\ UNCHANGED <<secrets, formRendered, submitted, search_query,
                 naver_display_count, sort_param, respKind, errors, msgs,
                 tmap_results, localRet, geoRet, naver_results, search_type,
                 tmapPanel, naverPanel, total_count, raised, convVars>>

\* lines 169-184 after the response arrives, then the panel of lines 321-367
TmapResponse ==
  /\ pc = "tmap_wait"
  /\ \E resp \in TmapResponses :
       LET o == search_tmap(resp)
       IN /\ Receive("A", search_query, resp.kind, o)
          /\ IF o.raised
             THEN /\ pc' = "crashed"
                  /\ UNCHANGED <<tmap_results, tmapPanel>>
             ELSE /\ pc' = "naver"
                  /\ tmap_results' = o.ret
                  /\ tmapPanel' = TmapPanel(o.ret)
  /\ UNCHANGED <<secrets, formRendered, submitted, search_query,
                 naver_display_count, sort_param, msgs, localRet, geoRet,
                 naver_results, search_type, naverPanel, total_count, convVars>>

\* line 375, line 245, up to requests.get of line 193
NaverLocalRequest ==
  /\ pc = "naver"
  /\ Send("B", search_query, naver_display_count, sort_param)
  /\ pc' = "local_wait"
  /\ UNCHANGED <<secrets, formRendered, submitted, search_query,
                 naver_display_count, sort_param, respKind, errors, msgs,
                 tmap_results, localRet, geoRet, naver_results, search_type,
                 tmapPanel, naverPanel, total_count, raised, convVars>>

\* lines 193-218 after the response arrives and lines 246-249; when the
\* local result suffices, also the panel and totals of lines 377-433
NaverLocalResponse ==
  /\ pc = "local_wait"
  /\ \E resp \in LocalResponses :
       LET o == search_naver_local(resp)
       IN /\ Receive("B", search_query, resp.kind, o)
          /\ localRet' = o.ret
          /\ IF o.raised
             THEN /\ pc' = "crashed"
                  /\ msgs' = msgs
                  /\ UNCHANGED <<naver_results, search_type, naverPanel, total_count>>
             ELSE IF LocalSuffices(o.ret)
             THEN /\ pc' = "done"
                  /\ msgs' = msgs \o Repeat("debug_write", o.writes)
                  /\ naver_results' = o.ret
                  /\ search_type' = LabelLocal
                  /\ naverPanel' = NaverPanel(o.ret, LabelLocal)
                  /\ total_count' = TotalCount(tmap_results, o.ret)
             ELSE /\ pc' = "geocode"
                  /\ msgs' = (msgs \o Repeat("debug_write", o.writes))
                               \o <<"fallback_info">>
                  /\ UNCHANGED <<naver_results, search_type, naverPanel, total_count>>
  /\ UNCHANGED <<secrets, formRendered, submitted, search_query,
                 naver_display_count, sort_param, tmap_results, geoRet,
                 tmapPanel, convVars>>

\* geocoding asked with an empty query instead of the keyword
OtherKeyword(keyword) == ""

\* line 250: search_naver_geocode(keyword)
GeocodeKeyword(keyword) == keyword

\* line 250 up to requests.get of line 227
GeocodeRequest ==
  /\ pc = "geocode"
  /\ Send("C", GeocodeKeyword(search_query), 0, "")
  /\ pc' = "geocode_wait"
  /\ UNCHANGED <<secrets, formRendered, submitted, search_query,
                 naver_display_count, sort_param, respKind, errors, msgs,
                 tmap_results, localRet, geoRet, naver_results, search_type,
                 tmapPanel, naverPanel, total_count, raised, convVars>>

\* lines 227-241 after the response arrives, lines 252-255, then the panel
\* and totals of lines 377-433
GeocodeResponse ==
  /\ pc = "geocode_wait"
  /\ \E resp \in GeoResponses :
       LET o == search_naver_geocode(resp)
           out == GeocodeOutcome(o.ret)
       IN /\ Receive("C", search_query, resp.kind, o)
          /\ geoRet' = o.ret
          /\ IF o.raised
             THEN /\ pc' = "crashed"
                  /\ UNCHANGED <<naver_results, search_type, naverPanel, total_count>>
             ELSE /\ pc' = "done"
                  /\ naver_results' = out[1]
                  /\ search_type' = out[2]
                  /\ naverPanel' = NaverPanel(out[1], out[2])
                  /\ total_count' = TotalCount(tmap_results, out[1])
  /\ UNCHANGED <<secrets, formRendered, submitted, search_query,
                 naver_display_count, sort_param, msgs, tmap_results, localRet,
                 tmapPanel, convVars>>

\* A user interaction makes Streamlit run the script again from the top.
Rerun ==
  /\ pc \in {"done", "stopped"}
  /\ pc' = "load"
  /\ formRendered' = FALSE
  /\ submitted' = FALSE
  /\ search_query' = ""
  /\ naver_display_count' = 5
  /\ sort_param' = "random"
  /\ calls' = <<>>
  /\ inflight' = {}
  /\ respKind' = [c \in Clients |-> ""]
  /\ errors' = [c \in Clients |-> 0]
  /\ msgs' = <<>>
  /\ tmap_results' = NoneRet
  /\ localRet' = NoneRet
  /\ geoRet' = NoneRet
  /\ naver_results' = NoneRet
  /\ search_type' = ""
  /\ tmapPanel' = NoPanel
  /\ naverPanel' = NoPanel
  /\ total_count' = 0
  /\ raised' = FALSE
  /\ UNCHANGED <<secrets, convVars>>

Next ==
  \/ LoadSecrets
  \/ RenderForm
  \/ TmapRequest
  \/ TmapResponse
  \/ NaverLocalRequest
  \/ NaverLocalResponse
  \/ GeocodeRequest
  \/ GeocodeResponse
  \/ Rerun

Spec == Init /\ [][Next]_vars

\* ---------------------------------- convert_tm_to_wgs84 applied on its own
InitConv ==
  /\ FreshRun
  /\ secrets = Credentials
  /\ cx \in RawInputs /\ cy \in RawInputs
  /\ cres = Unset

ApplyConvert ==
  /\ cres = Unset
  /\ cres' = convert_tm_to_wgs84(cx, cy)
  /\ UNCHANGED <<pc, secrets, runVars, cx, cy>>

NextConv == ApplyConvert

SpecConv == InitConv /\ [][NextConv]_vars

\* ------------------------------------------------------------- properties
NReq(c) ==
  Cardinality({i \in 1..Len(calls) : calls[i].client = c /\ calls[i].ev = "req"})

Returned(c) == respKind[c] # ""

\* a coordinate as a count of 10^-7 degrees
Units(d) == d.deg * Scale + d.frac

\* both coordinates present and strictly inside latitude (33,43), longitude (124,132)
InBox(p) ==
  /\ p.lat.tag = "num" /\ p.lon.tag = "num"
  /\ 330000000 < Units(p.lat) /\ Units(p.lat) < 430000000
  /\ 1240000000 < Units(p.lon) /\ Units(p.lon) < 1320000000

AllInBox(l) == \A i \in 1..Len(l) : InBox(l[i])

\* what the orchestrator owes its caller, given what the two Naver clients returned
Owed ==
  IF Truthy(localRet) THEN <<localRet, LabelLocal>>
  ELSE IF Truthy(geoRet) THEN <<geoRet, LabelGeocode>>
  ELSE <<NoneRet, LabelFail>>

\* C1: once search_naver_local has returned a non-empty list, smart_search_naver
\* has returned exactly that list with the local-search label, and the
\* geocoding client is not invoked in that run.
C1_LocalHitSkipsGeocode ==
  (Returned("B") /\ Truthy(localRet)) =>
    /\ pc = "done"
    /\ naver_results = localRet
    /\ search_type = LabelLocal
    /\ NReq("C") = 0
    /\ ~Returned("C")

C1_Witness ==
  /\ pc = "done" /\ respKind["B"] = "ok" /\ Len(localRet.list) = MaxItems
  /\ search_type = LabelLocal

\* C2: once search_naver_local has returned nothing (an empty list or None),
\* the local search has been requested exactly once, geocoding is requested at
\* most once and only with the submitted query, and exactly once by the time
\* the orchestrator has returned.
C2_LocalMissGeocodesOnce ==
  (Returned("B") /\ ~Truthy(localRet)) =>
    /\ NReq("B") = 1
    /\ NReq("C") <= 1
    /\ \A i \in 1..Len(calls) :
         calls[i].client = "C" => calls[i].keyword = search_query
    /\ pc \in {"geocode", "geocode_wait", "done"}
    /\ (pc \in {"geocode_wait", "done"} => NReq("C") = 1)
    /\ (pc = "done" => Returned("C"))

C2_Witness ==
  /\ pc = "done" /\ respKind["B"] = "ok" /\ localRet = Ret(<<>>)
  /\ NReq("C") = 1 /\ search_query = "Pangyoyeok-ro 264"
  /\ "debug_write" \in {msgs[i] : i \in 1..Len(msgs)}

\* C3: when both Naver clients returned nothing, smart_search_naver returns
\* (None, failure label) and no exception leaves it; the failure label is
\* returned only then, and the returned list is non-empty exactly when the
\* label is one of the two success labels.
C3_FailureOutcome ==
  /\ ~raised /\ pc # "crashed"
  /\ (pc = "done" /\ Returned("B")) =>
       /\ (~Truthy(localRet) /\ ~Truthy(geoRet)) <=> (search_type = LabelFail)
       /\ (search_type = LabelFail) => (naver_results = NoneRet)
       /\ Truthy(naver_results) <=> (search_type \in {LabelLocal, LabelGeocode})

C3_Witness ==
  /\ pc = "done" /\ search_type = LabelFail
  /\ respKind["B"] \in FailureKinds /\ respKind["C"] = "ok" /\ geoRet = Ret(<<>>)

\* C4: convert_tm_to_wgs84 raises nothing; for integers x, y with
\* 1240000000 < x < 1320000000 and 330000000 < y < 430000000 it returns
\* (y / 10^7, x / 10^7); for every other input it returns (None, None).
C4_ConvertTotal ==
  (cres # Unset) =>
    /\ ~cres.raised
    /\ IF /\ cx.tag = "int" /\ cy.tag = "int"
          /\ 1240000000 < cx.n /\ cx.n < 1320000000
          /\ 330000000 < cy.n /\ cy.n < 430000000
       THEN /\ cres.lat.tag = "num" /\ cres.lon.tag = "num"
            /\ cres.lat.frac \in 0..(Scale - 1) /\ cres.lon.frac \in 0..(Scale - 1)
            /\ Units(cres.lat) = cy.n
            /\ Units(cres.lon) = cx.n
       ELSE cres.lat = NoneD /\ cres.lon = NoneD

C4_Witness ==
  /\ cx = PyInt(LonMax * Scale - 1) /\ cy = PyInt(LatMin * Scale + 1)
  /\ cres.lat = Num(LatMin, 1) /\ cres.lon = Num(LonMax - 1, Scale - 1)

\* C5 as stated: every Place Record handed to the presenter or listed in a
\* table has both coordinates present and inside the bounding box.
C5_AllRetainedInBox ==
  /\ AllInBox(tmap_results.list)
  /\ AllInBox(naver_results.list)

\* C5 amended: a Place Record is plotted on a map only if both coordinates are
\* present and inside the bounding box, and search_naver_local returns only
\* such records.
C5_PlottedInBox ==
  /\ AllInBox(tmapPanel.map)
  /\ AllInBox(naverPanel.map)
  /\ AllInBox(localRet.list)

C5_Witness ==
  /\ tmapPanel.state = "results" /\ tmapPanel.mapShown
  /\ Len(tmapPanel.table) = MaxItems /\ Len(tmapPanel.map) = 1
  /\ ~AllInBox(tmap_results.list)

\* C6: for each of the three clients, a failed HTTP exchange ends with exactly
\* one st.error message from that client and with the client returning None.
C6_FailureShowsOneError ==
  /\ (respKind["A"] \in FailureKinds) => (errors["A"] = 1 /\ tmap_results = NoneRet)
  /\ (respKind["B"] \in FailureKinds) => (errors["B"] = 1 /\ localRet = NoneRet)
  /\ (respKind["C"] \in FailureKinds) => (errors["C"] = 1 /\ geoRet = NoneRet)

\* C7: after the Tmap exchange failed, search_tmap has returned None, nothing
\* was raised, the Tmap panel shows "no results" with count 0, the script goes
\* on to the Naver path, and what the Naver panel shows is what the Naver
\* clients returned.
C7_TmapFailureIsolated ==
  (respKind["A"] \in FailureKinds) =>
    /\ tmap_results = NoneRet
    /\ ~raised
    /\ tmapPanel = EmptyPanel
    /\ pc \in {"naver", "local_wait", "geocode", "geocode_wait", "done"}
    /\ (pc = "done") =>
         /\ NReq("B") = 1 /\ Returned("B")
         /\ <<naver_results, search_type>> = Owed
         /\ naverPanel.state \in {"results", "noresults"}
         /\ naverPanel.count = Len(naver_results.list)
         /\ total_count = naverPanel.count

C7_Witness ==
  /\ respKind["A"] = "http_error" /\ pc = "done"
  /\ naverPanel.state = "results" /\ naverPanel.count = MaxItems

\* C8: with any credential absent the run shows the configuration error and
\* stops: the search form is never rendered and no provider call is made.
C8_MissingSecretHalts ==
  (secrets # Credentials) =>
    /\ pc \in {"load", "stopped"}
    /\ ~formRendered
    /\ calls = <<>> /\ inflight = {}
    /\ (pc = "stopped" => msgs = <<"config_error">>)

C8_Witness ==
  pc = "stopped" /\ secrets = Credentials \ {"NCP_CLIENT_SECRET"}

PanelOK(panel, results) ==
  (panel.state = "results") =>
    /\ Len(results.list) > 0
    /\ panel.table = Names(results.list)
    /\ panel.map = SelectSeq(results.list, InBox)
    /\ (panel.map = <<>>) => (~panel.mapShown /\ panel.warn)
    /\ (panel.map # <<>>) => (panel.mapShown /\ ~panel.warn)

FullTrace ==
  <<<<"A", "req">>, <<"A", "ret">>, <<"B", "req">>, <<"B", "ret">>,
    <<"C", "req">>, <<"C", "ret">>>>

\* C10: the outbound calls of a run are a prefix of A, B, C, each request
\* followed by its own return before the next request; never two in flight; C
\* only after B returned nothing; a finished search has called A and B once.
C10_SequentialCalls ==
  /\ Len(calls) <= Len(FullTrace)
  /\ \A i \in 1..Len(calls) : <<calls[i].client, calls[i].ev>> = FullTrace[i]
  /\ Cardinality(inflight) <= 1
  /\ (NReq("C") > 0) => (Returned("B") /\ ~Truthy(localRet))
  /\ (pc = "done" /\ submitted /\ search_query # "") =>
       (NReq("A") = 1 /\ NReq("B") = 1 /\ Len(calls) \in {4, 6})

C10_Witness ==
  /\ pc = "done" /\ Len(calls) = 6 /\ inflight = {}
  /\ respKind["A"] = "ok" /\ respKind["C"] = "transport"
====
